---- MODULE Spec2Model ----
(***************************************************************************)
(* Model of invoice_processor.py: one run of main().  The run opens a      *)
(* mailbox session, fetches the unseen messages, walks each message for    *)
(* PDF candidates, stores one row per candidate, classifies the message as *)
(* processed or failed, flags it \Seen, logs out and posts a summary.      *)
(*                                                                         *)
(* Every call into a library that can raise (imaplib, sqlite3, urllib,     *)
(* bytes.decode) is a nondeterministic choice between its outcomes.  An    *)
(* exception no handler of main() catches ends the run in pc = "crashed".  *)
(***************************************************************************)
EXTENDS Integers, Sequences, FiniteSets, TLC

(***************************************************************************)
(* Bounds of the model.                                                    *)
(***************************************************************************)
\* Largest number of ids the UNSEEN search returns.
MaxMsgs == 2

(***************************************************************************)
(* Python values.  A str is Str(s), None is None; a dict is the sequence   *)
(* of its <<key, value>> pairs in insertion order.                         *)
(***************************************************************************)
None == <<"none">>

Str(s) == <<"str", s>>

\* Python truthiness of a str-or-None value (connect_mailbox line 45).
Truthy(v) == v # None /\ v # Str("")

EmptyDict == <<>>

HasKey(d, k) == \E i \in 1..Len(d) : d[i][1] = k

\* d[k] = v : an existing key keeps its position, a new key is appended.
dict_set(d, k, v) ==
    IF HasKey(d, k)
    THEN [i \in 1..Len(d) |-> IF d[i][1] = k THEN <<k, v>> ELSE d[i]]
    ELSE Append(d, <<k, v>>)

\* d.update(u)
RECURSIVE dict_update(_, _)
dict_update(d, u) ==
    IF u = <<>> THEN d
    ELSE dict_update(dict_set(d, Head(u)[1], Head(u)[2]), Tail(u))

\* json.dumps of one value: None is null, a str is quoted.
json_value(v) == IF v = None THEN "null" ELSE "\"" \o v[2] \o "\""

RECURSIVE json_items(_)
json_items(d) ==
    IF d = <<>> THEN ""
    ELSE "\"" \o Head(d)[1] \o "\": " \o json_value(Head(d)[2])
         \o (IF Tail(d) = <<>> THEN "" ELSE ", " \o json_items(Tail(d)))

\* json.dumps(data) of store_invoice line 120.
json_dumps(d) == "{" \o json_items(d) \o "}"

(***************************************************************************)
(* The environment of connect_mailbox.                                     *)
(***************************************************************************)
\* os.environ as connect_mailbox reads it: EMAIL_HOST, EMAIL_USER,
\* EMAIL_PASS, EMAIL_PORT (None when the variable is not set).
EnvPool ==
    { [host |-> Str("imap.x.test"), user |-> Str("u"), pass |-> Str("p"), port |-> None],
      [host |-> Str("imap.x.test"), user |-> Str("u"), pass |-> Str("p"), port |-> Str("imaps")],
      [host |-> None,               user |-> Str("u"), pass |-> Str("p"), port |-> None],
      [host |-> Str("imap.x.test"), user |-> Str("u"), pass |-> Str(""),  port |-> None] }

\* int(os.environ.get("EMAIL_PORT", "993")): 0 stands for ValueError.
int_port(env) ==
    LET text == IF env.port = None THEN "993" ELSE env.port[2]
    IN  CASE text = "993" -> 993
          [] text = "143" -> 143
          [] OTHER        -> 0

\* connect_mailbox: "raised" when int() raises, when a credential is
\* missing or empty, or when IMAP4_SSL()/login() raise; else "session".
connect_mailbox(env, login_ok) ==
    IF int_port(env) = 0 THEN "raised"
    ELSE IF ~(Truthy(env.host) /\ Truthy(env.user) /\ Truthy(env.pass)) THEN "raised"
    ELSE IF ~login_ok THEN "raised"
    ELSE "session"

(***************************************************************************)
(* Messages.  A message is its Subject header and the flat sequence of     *)
(* parts msg.walk() yields.  A part has a content type, a filename, a      *)
(* decoded payload (pdf) or an HTML text (a sequence of whitespace-        *)
(* separated words) and says whether its payload decodes in its charset.   *)
(***************************************************************************)
Word(scheme, rest, ext, query) ==
    [scheme |-> scheme, rest |-> rest, ext |-> ext, query |-> query]

PdfPart(filename, payload) ==
    [ctype |-> "application/pdf", filename |-> filename, payload |-> payload,
     html |-> <<>>, charset_ok |-> TRUE]

HtmlPart(words, charset_ok) ==
    [ctype |-> "text/html", filename |-> None, payload |-> "",
     html |-> words, charset_ok |-> charset_ok]

OtherPart(ctype) ==
    [ctype |-> ctype, filename |-> None, payload |-> "hello",
     html |-> <<>>, charset_ok |-> TRUE]

LinkA == Word("https", "x.test/a", ".pdf", "")
LinkB == Word("https", "x.test/b", ".pdf", "?token=1")
LinkTxt == Word("http", "x.test/c", ".txt", "")
LinkFtp == Word("ftp", "x.test/d", ".pdf", "")
Plain == Word("", "Hello", "", "")

\* The messages a fetch can return.
MessagePool ==
    { \* one PDF attachment the parser recognises
      [Subject |-> Str("Invoice #1"),
       parts |-> << PdfPart(Str("inv1.pdf"), "inv") >>],
      \* an HTML body with two PDF links
      [Subject |-> Str("Links"),
       parts |-> << HtmlPart(<< Plain, LinkA, LinkB >>, TRUE) >>],
      \* no attachment, no link, no Subject header
      [Subject |-> None,
       parts |-> << OtherPart("text/plain") >>],
      \* one PDF attachment without a filename that the parser does not recognise
      [Subject |-> Str("Scan"),
       parts |-> << OtherPart("multipart/mixed"), PdfPart(None, "blank") >>],
      \* a recognised attachment followed by an HTML part that does not decode
      [Subject |-> Str("Broken"),
       parts |-> << OtherPart("multipart/mixed"), PdfPart(Str("b.pdf"), "inv"),
                    HtmlPart(<< Plain >>, FALSE) >>],
      \* an attachment with an empty payload and an HTML body without PDF links
      [Subject |-> Str("Empty"),
       parts |-> << PdfPart(Str("e.pdf"), ""), HtmlPart(<< LinkTxt, LinkFtp >>, TRUE) >>],
      \* a MIME-encoded subject and a recognised attachment
      [Subject |-> Str("=?utf-8?q?Invoice_=231?="),
       parts |-> << PdfPart(Str("inv2.pdf"), "inv"), OtherPart("text/plain") >>] }

\* What urlopen(match).read() can give: the bytes of a document, or
\* "ERR" when urlopen or read raise.
Docs == {"inv", "blank"}

Downloads == Docs \cup {"ERR"}

\* decode_mime_words: str(make_header(decode_header(text))), or the raw
\* text when decoding raises.
decode_mime_words(text) ==
    CASE text = "=?utf-8?q?Invoice_=231?=" -> "Invoice #1"
      [] OTHER -> text

\* msg.get("Subject", "")
subject_of(msg) == IF msg.Subject = None THEN "" ELSE msg.Subject[2]

(***************************************************************************)
(* The Extraction Engine and the Candidate Locator.                        *)
(***************************************************************************)
\* The fields a PDF parser reads from a document it recognises as an
\* invoice (the parser itself is not in the repository).
ParserFields(data) ==
    CASE data = "inv" -> << <<"amount", Str("100.00")>> >>
      [] OTHER        -> EmptyDict

\* extract_invoice_from_pdf: the placeholder returns {} for every
\* document; the parser it stands for returns the recognised fields.
extract_invoice_from_pdf(data) ==
    IF data = "inv" THEN ParserFields(data) ELSE EmptyDict

\* One word of the HTML text against
\* https?://[^\s'"]+\.pdf(?:\?[^\s'"]*)?
re_match(w) == w.scheme \in {"http", "https"} /\ w.rest # "" /\ w.ext = ".pdf"

url_of(w) == w.scheme \o "://" \o w.rest \o w.ext \o w.query

\* re.findall(pattern, html): the matched URLs in text order.
RECURSIVE re_findall(_)
re_findall(words) ==
    IF words = <<>> THEN <<>>
    ELSE (IF re_match(Head(words)) THEN << url_of(Head(words)) >> ELSE <<>>)
         \o re_findall(Tail(words))

\* The accumulator of one walk: results as extract_invoice_info builds
\* them, raw the bare result of extract_invoice_from_pdf per candidate,
\* urls the URLs urlopen was called on, outcomes whether each of these
\* calls gave a document ("ok") or raised ("ERR"), raised whether the
\* walk raised.
NoResults ==
    [results |-> <<>>, raw |-> <<>>, urls |-> <<>>, outcomes |-> <<>>,
     raised |-> FALSE]

\* attachment_info with the provenance of a link.
attachment_info_mut(part) ==
    dict_update(extract_invoice_from_pdf(part.payload),
                << <<"source", Str("link")>>, <<"filename", part.filename>> >>)

\* Lines 82-86: an application/pdf part with a non-empty payload.
attachment_info(part) ==
    dict_update(extract_invoice_from_pdf(part.payload),
                << <<"source", Str("attachment")>>, <<"filename", part.filename>> >>)

\* Lines 95-96: a downloaded document.
link_info(data, url) ==
    dict_update(extract_invoice_from_pdf(data),
                << <<"source", Str("link")>>, <<"url", Str(url)>> >>)

\* walk_links where a failed download ends the loop over the matches.
RECURSIVE walk_links_mut(_, _, _)
walk_links_mut(matches, acc, dl) ==
    IF matches = <<>> THEN acc
    ELSE LET url  == Head(matches)
             data == dl[Len(acc.urls) + 1]
             tried == [acc EXCEPT
                         !.urls = Append(@, url),
                         !.outcomes = Append(@, IF data = "ERR" THEN "ERR" ELSE "ok")]
         IN  IF data = "ERR" THEN tried
             ELSE walk_links_mut(Tail(matches),
                                 [tried EXCEPT
                                    !.results = Append(@, link_info(data, url)),
                                    !.raw = Append(@, extract_invoice_from_pdf(data))],
                                 dl)

\* Lines 89-99: one download per match; dl[k] is what the k-th urlopen
\* of the walk gives.  A failed download is logged and skipped.
RECURSIVE walk_links(_, _, _)
walk_links(matches, acc, dl) ==
    IF matches = <<>> THEN acc
    ELSE LET url  == Head(matches)
             data == dl[Len(acc.urls) + 1]
             tried == [acc EXCEPT
                         !.urls = Append(@, url),
                         !.outcomes = Append(@, IF data = "ERR" THEN "ERR" ELSE "ok")]
         IN  walk_links(Tail(matches),
                        IF data = "ERR" THEN tried
                        ELSE [tried EXCEPT
                                !.results = Append(@, link_info(data, url)),
                                !.raw = Append(@, extract_invoice_from_pdf(data))],
                        dl)

\* is_pdf_attachment without the test of the payload.
is_pdf_attachment_mut(part) == part.ctype = "application/pdf"

\* Line 82: the part is a PDF attachment with a non-empty payload.
is_pdf_attachment(part) == part.ctype = "application/pdf" /\ part.payload # ""

\* Lines 79-99: the loop over msg.walk().  An HTML part whose payload
\* does not decode raises out of the function.
RECURSIVE walk_parts(_, _, _)
walk_parts(parts, acc, dl) ==
    IF parts = <<>> THEN acc
    ELSE LET part == Head(parts)
         IN  IF is_pdf_attachment(part)
             THEN walk_parts(Tail(parts),
                             [acc EXCEPT
                                !.results = Append(@, attachment_info(part)),
                                !.raw = Append(@, extract_invoice_from_pdf(part.payload))],
                             dl)
             ELSE IF part.ctype = "text/html"
             THEN IF ~part.charset_ok
                  THEN [acc EXCEPT !.raised = TRUE]
                  ELSE walk_parts(Tail(parts),
                                  walk_links(re_findall(part.html), acc, dl), dl)
             ELSE walk_parts(Tail(parts), acc, dl)

extract_invoice_info(msg, dl) == walk_parts(msg.parts, NoResults, dl)

\* The number of words of a message: no walk downloads more often.
RECURSIVE word_count(_)
word_count(parts) ==
    IF parts = <<>> THEN 0 ELSE Len(Head(parts).html) + word_count(Tail(parts))

\* The number of urlopen calls the walk of msg makes.
downloads_of(msg) ==
    Len(extract_invoice_info(msg, [k \in 1..word_count(msg.parts) |-> "blank"]).urls)

(***************************************************************************)
(* The summary of main() lines 175-179.                                    *)
(***************************************************************************)
\* bullets in reverse order.
RECURSIVE bullets_mut(_)
bullets_mut(subjects) ==
    IF subjects = <<>> THEN <<>>
    ELSE bullets_mut(Tail(subjects)) \o << " - " \o Head(subjects) >>

\* Lines 175 and 178: one bullet per subject.
RECURSIVE bullets(_)
bullets(subjects) ==
    IF subjects = <<>> THEN <<>>
    ELSE << " - " \o Head(subjects) >> \o bullets(Tail(subjects))

summary_lines(proc, fail) ==
    << "Processed invoices:" >> \o bullets(proc)
    \o (IF fail # <<>>
        THEN << "Failed or unrecognized emails:" >> \o bullets(fail)
        ELSE <<>>)

\* "\n".join(lines)
RECURSIVE join_lines(_)
join_lines(lines) ==
    IF lines = <<>> THEN ""
    ELSE IF Tail(lines) = <<>> THEN Head(lines)
    ELSE Head(lines) \o "\n" \o join_lines(Tail(lines))

render_summary(proc, fail) == join_lines(summary_lines(proc, fail))

(***************************************************************************)
(* The state of one run of main().                                         *)
(***************************************************************************)
VARIABLES
    pc,         \* where main() is; "done" after a return, "crashed" after an uncaught exception
    table,      \* whether init_db has created the invoices table
    session,    \* "none", "open" or "closed": the IMAP session
    msg_ids,    \* the ids of the UNSEEN search (line 56)
    fi,         \* index into msg_ids of the fetch loop (line 58)
    messages,   \* the list fetch_unseen_messages builds: <<msg_id, msg>> pairs
    mi,         \* index into messages of the loop of main (line 156)
    subject,    \* the decoded subject of the current message (line 157)
    infos,      \* the result of extract_invoice_info for the current message
    raw,        \* per candidate of the current message, what extract_invoice_from_pdf returned
    si,         \* index into infos of the loop of line 161
    processed,  \* line 153
    failed,     \* line 154
    rows,       \* the rows of table invoices, in insertion order
    posted,     \* the payloads the webhook received
    log         \* history: the calls made so far, <<operation, msg_id>> (0: no message)

vars == << pc, table, session, msg_ids, fi, messages, mi, subject,
           infos, raw, si, processed, failed, rows, posted, log >>

\* The message the loop of main() is handling.
cur_id == messages[mi][1]

cur_msg == messages[mi][2]

Init ==
    /\ pc = "init_db"
    /\ table = FALSE
    /\ session = "none"
    /\ msg_ids = <<>>
    /\ fi = 1
    /\ messages = <<>>
    /\ mi = 1
    /\ subject = ""
    /\ infos = <<>>
    /\ raw = <<>>
    /\ si = 1
    /\ processed = <<>>
    /\ failed = <<>>
    /\ rows = <<>>
    /\ posted = <<>>
    /\ log = <<>>

\* Line 146: init_db(); sqlite3 raising is not caught.
InitDb ==
    /\ pc = "init_db"
    /\ \E ok \in BOOLEAN :
         IF ok THEN table' = TRUE /\ pc' = "connect"
               ELSE table' = table /\ pc' = "crashed"
    /\ UNCHANGED << session, msg_ids, fi, messages, mi, subject, infos,
                    raw, si, processed, failed, rows, posted, log >>

\* next_after_connect without the return of line 151.
next_after_connect_mut(result) == "search"

\* Lines 147-151: where main() goes after connect_mailbox().
next_after_connect(result) == IF result = "session" THEN "search" ELSE "done"

\* Lines 147-154: connect_mailbox(); on any exception log and return.
Connect ==
    /\ pc = "connect"
    /\ \E env \in EnvPool, login_ok \in BOOLEAN :
         LET result == connect_mailbox(env, login_ok)
         IN  /\ session' = IF result = "session" THEN "open" ELSE session
             /\ pc' = next_after_connect(result)
             /\ log' = Append(log, << IF result = "session" THEN "login"
                                                            ELSE "connect_failed", 0 >>)
    /\ UNCHANGED << table, msg_ids, fi, messages, mi, subject, infos,
                    raw, si, processed, failed, rows, posted >>

\* Lines 54-57: select INBOX and search UNSEEN; an imaplib error is not caught.
Search ==
    /\ pc = "search"
    /\ \E ok \in BOOLEAN, n \in 0..MaxMsgs :
         IF ok
         THEN /\ msg_ids' = [i \in 1..n |-> i]
              /\ pc' = "fetch"
              /\ log' = Append(log, <<"search", 0>>)
         ELSE /\ msg_ids' = msg_ids
              /\ pc' = "crashed"
              /\ log' = Append(log, <<"search_raised", 0>>)
    /\ fi' = 1
    /\ messages' = <<>>
    /\ UNCHANGED << table, session, mi, subject, infos, raw, si,
                    processed, failed, rows, posted >>

\* Lines 58-64: one iteration of the fetch loop.  typ "NO" skips the id;
\* imap.fetch raising (or an OK answer without data) is not caught.
Fetch ==
    /\ pc = "fetch"
    /\ fi <= Len(msg_ids)
    /\ \E typ \in {"OK", "NO", "raise"}, m \in MessagePool :
         /\ log' = Append(log, <<"fetch_" \o typ, msg_ids[fi]>>)
         /\ CASE typ = "OK" ->
                   /\ messages' = Append(messages, <<msg_ids[fi], m>>)
                   /\ fi' = fi + 1
                   /\ pc' = pc
              [] typ = "NO" ->
                   /\ messages' = messages
                   /\ fi' = fi + 1
                   /\ pc' = pc
              [] OTHER ->
                   /\ messages' = messages
                   /\ fi' = fi
                   /\ pc' = "crashed"
    /\ UNCHANGED << table, session, msg_ids, mi, subject, infos, raw,
                    si, processed, failed, rows, posted >>

\* Line 65 and the head of the loop of line 156.
FetchReturn ==
    /\ pc = "fetch"
    /\ fi > Len(msg_ids)
    /\ mi' = 1
    /\ pc' = IF messages = <<>> THEN "logout" ELSE "process"
    /\ UNCHANGED << table, session, msg_ids, fi, messages, subject,
                    infos, raw, si, processed, failed, rows, posted, log >>

\* The urlopen calls of one walk, for the history.
download_events(outcomes, id) ==
    [k \in 1..Len(outcomes) |-> <<"download_" \o outcomes[k], id>>]

\* classify_as_failed that uses the candidates found before an exception.
classify_as_failed_mut(r) == r.results = <<>>

\* Lines 159-160 and 164-168: the walk raised (except clause) or found
\* no candidate (else clause).
classify_as_failed(r) == r.raised \/ r.results = <<>>

\* on_store_error that swallows the exception.
on_store_error_mut(fail, subj) == fail

\* Lines 166-168: failed after an exception of store_invoice.
on_store_error(fail, subj) == Append(fail, subj)

\* finally_calls that flags the message a second time.
finally_calls_twice(id) == << <<"seen", id>>, <<"seen", id>> >>

\* finally_calls without the imap.store call.
finally_calls_none(id) == <<>>

\* Lines 169-170: the calls of the finally clause.
finally_calls(id) == << <<"seen", id>> >>

\* Lines 157-160 and 164-168: decode the subject, walk the message; no
\* candidate or an exception classify the message as failed.
Process ==
    /\ pc = "process"
    /\ subject' = decode_mime_words(subject_of(cur_msg))
    /\ \E dl \in [1..downloads_of(cur_msg) -> Downloads] :
         LET r == extract_invoice_info(cur_msg, dl)
             h == Append(log, <<"extract", cur_id>>) \o download_events(r.outcomes, cur_id)
                  \o (IF r.raised THEN << <<"extract_raised", cur_id>> >> ELSE <<>>)
         IN  /\ raw' = r.raw
             /\ IF classify_as_failed(r)
                THEN /\ failed' = Append(failed, subject')
                     /\ infos' = <<>>
                     /\ pc' = "mark"
                     /\ log' = Append(h, <<"failed", cur_id>>)
                ELSE /\ failed' = failed
                     /\ infos' = r.results
                     /\ pc' = "store"
                     /\ log' = h
    /\ si' = 1
    /\ UNCHANGED << table, session, msg_ids, fi, messages, mi,
                    processed, rows, posted >>

\* Row (subject, json.dumps(data)) of store_invoice.
invoice_row(subj, data) == [email_subject |-> subj, data |-> json_dumps(data)]

\* Lines 161-163 and 166-168: one store_invoice call; after the last one
\* the message is processed; sqlite3 raising classifies it as failed.
Store ==
    /\ pc = "store"
    /\ \E ok \in BOOLEAN :
         IF ok
         THEN /\ rows' = Append(rows, invoice_row(subject, infos[si]))
              /\ failed' = failed
              /\ IF si = Len(infos)
                 THEN /\ processed' = Append(processed, subject)
                      /\ si' = si
                      /\ pc' = "mark"
                      /\ log' = log \o << <<"insert", cur_id>>, <<"processed", cur_id>> >>
                 ELSE /\ processed' = processed
                      /\ si' = si + 1
                      /\ pc' = pc
                      /\ log' = Append(log, <<"insert", cur_id>>)
         ELSE /\ rows' = rows
              /\ failed' = on_store_error(failed, subject)
              /\ processed' = processed
              /\ si' = si
              /\ pc' = "mark"
              /\ log' = log \o << <<"insert_raised", cur_id>>, <<"failed", cur_id>> >>
    /\ UNCHANGED << table, session, msg_ids, fi, messages, mi, subject,
                    infos, raw, posted >>

\* Lines 169-170: imap.store(msg_id, '+FLAGS', '\\Seen') in the finally
\* clause; imaplib raising there is not caught.
MarkSeen ==
    /\ pc = "mark"
    /\ \E ok \in BOOLEAN :
         /\ log' = log \o finally_calls(cur_id)
                     \o (IF ok THEN <<>> ELSE << <<"seen_raised", cur_id>> >>)
         /\ IF ~ok THEN pc' = "crashed" /\ mi' = mi
            ELSE IF mi < Len(messages) THEN pc' = "process" /\ mi' = mi + 1
            ELSE pc' = "logout" /\ mi' = mi
    /\ UNCHANGED << table, session, msg_ids, fi, messages, subject,
                    infos, raw, si, processed, failed, rows, posted >>

\* Line 172: imap.logout(); imaplib raising is not caught.
Logout ==
    /\ pc = "logout"
    /\ \E ok \in BOOLEAN :
         /\ log' = Append(log, <<"logout", 0>>)
         /\ IF ok THEN session' = "closed" /\ pc' = "notify"
                  ELSE session' = session /\ pc' = "crashed"
    /\ UNCHANGED << table, msg_ids, fi, messages, mi, subject, infos,
                    raw, si, processed, failed, rows, posted >>

\* The body the webhook receives (line 130).
payload_of(summary) == [msgtype |-> "text", text |-> [content |-> summary]]

\* WECHAT_WEBHOOK_URL (line 29): not set, or the URL of the webhook.
WebhookPool == {None, Str("https://hook.test/send")}

\* send_wechat_notification: nothing is posted without a URL; a failed
\* POST is logged and swallowed.
send_wechat_notification(webhook, summary, post_ok) ==
    IF ~Truthy(webhook) THEN posted
    ELSE IF post_ok THEN Append(posted, payload_of(summary))
    ELSE posted

\* should_notify without the test of line 174.
should_notify_mut(proc, fail) == TRUE

\* Line 174.
should_notify(proc, fail) == proc # <<>> \/ fail # <<>>

\* Lines 174-180.
Notify ==
    /\ pc = "notify"
    /\ IF should_notify(processed, failed)
       THEN \E webhook \in WebhookPool, post_ok \in BOOLEAN :
              /\ posted' = send_wechat_notification(webhook,
                                render_summary(processed, failed), post_ok)
              /\ log' = Append(log, <<"notify", 0>>)
       ELSE posted' = posted /\ log' = log
    /\ pc' = "done"
    /\ UNCHANGED << table, session, msg_ids, fi, messages, mi, subject,
                    infos, raw, si, processed, failed, rows >>

Next ==
    \/ InitDb
    \/ Connect
    \/ Search
    \/ Fetch
    \/ FetchReturn
    \/ Process
    \/ Store
    \/ MarkSeen
    \/ Logout
    \/ Notify

Spec == Init /\ [][Next]_vars

\* The run has ended: main() returned or an exception left it.
Ended == pc \in {"done", "crashed"}

(***************************************************************************)
(* Vocabulary of the properties.                                           *)
(***************************************************************************)
\* The call op was made for message id.
Has(op, id) == \E i \in 1..Len(log) : log[i] = <<op, id>>

\* How often the call op was made for message id.
Count(op, id) == Cardinality({i \in 1..Len(log) : log[i] = <<op, id>>})

\* The ids the UNSEEN search returned.
Ids == {msg_ids[i] : i \in 1..Len(msg_ids)}

\* The mailbox session was opened.
Opened == Has("login", 0)

\* The fetch of id did not deliver a message.
FetchFailed(id) == Has("fetch_NO", id) \/ Has("fetch_raise", id)

\* The message was classified.
Classified(id) == Has("processed", id) \/ Has("failed", id)

\* The j-th fetched message has been classified and is at, or past, its
\* finally clause.
Finished(j) == Has("seen", messages[j][1]) \/ (pc = "mark" /\ j = mi)

\* A word of an HTML text is a PDF link.
IsPdfUrl(w) == w.scheme \in {"http", "https"} /\ w.rest # "" /\ w.ext = ".pdf"

\* The non-empty application/pdf parts of a message.
Attachments(msg) ==
    {i \in 1..Len(msg.parts) :
        msg.parts[i].ctype = "application/pdf" /\ msg.parts[i].payload # ""}

\* The PDF links in the text/html parts of a message.
Links(msg) ==
    {<<i, k>> \in (1..Len(msg.parts)) \X (1..3) :
        /\ msg.parts[i].ctype = "text/html"
        /\ k <= Len(msg.parts[i].html)
        /\ IsPdfUrl(msg.parts[i].html[k])}

(***************************************************************************)
(* C1.  In every run in which the mailbox session opens, every id the      *)
(* UNSEEN search returned has had markSeen invoked on it when the run      *)
(* ends.  The code violates this: an id whose fetch is not OK is skipped   *)
(* by the fetch loop and never reaches the finally clause of main().       *)
(***************************************************************************)
C1_EveryUnseenMarkedSeen ==
    (Ended /\ Opened) => \A id \in Ids : Has("seen", id)

(***************************************************************************)
(* C2.  No row is inserted for a candidate whose extraction result is the  *)
(* empty mapping.  The code violates this: info.update() makes every       *)
(* result non-empty before main() tests it.                                *)
(***************************************************************************)
C2_EmptyResultNeverStored ==
    pc \in {"store", "mark"} =>
        \A k \in 1..Count("insert", cur_id) : raw[k] # EmptyDict

(***************************************************************************)
(* C3.  A message whose candidates all yield an empty extraction result    *)
(* is classified failed, not processed, and no row is stored for it.  The  *)
(* code violates this for every message that has a candidate.              *)
(***************************************************************************)
C3_AllEmptyIsFailed ==
    (pc = "mark" /\ raw # <<>> /\ \A k \in 1..Len(raw) : raw[k] = EmptyDict) =>
        /\ Has("failed", cur_id)
        /\ ~Has("processed", cur_id)
        /\ Count("insert", cur_id) = 0

(***************************************************************************)
(* C4.  At the end of handling a message its subject is in processed if    *)
(* and only if a row was stored for it.  The code violates this when a     *)
(* later store_invoice call of the same message raises.                    *)
(***************************************************************************)
C4_ProcessedIffPersisted ==
    pc = "mark" => (Has("processed", cur_id) <=> Count("insert", cur_id) >= 1)

(***************************************************************************)
(* C5.  A handled message with no non-empty application/pdf part and no    *)
(* PDF link in a text/html part is classified failed, not processed, and   *)
(* no row is stored for it.                                                *)
(***************************************************************************)
C5_NoCandidateIsFailed ==
    \A j \in 1..Len(messages) :
        LET id == messages[j][1]
            msg == messages[j][2]
        IN  (Finished(j) /\ Attachments(msg) = {} /\ Links(msg) = {}) =>
                /\ Has("failed", id)
                /\ ~Has("processed", id)
                /\ Count("insert", id) = 0
                /\ \E k \in 1..Len(failed) :
                      failed[k] = decode_mime_words(subject_of(msg))

\* A message with an empty attachment and links that are no PDF links
\* has just been classified.
C5_Witness ==
    /\ pc = "mark"
    /\ Attachments(cur_msg) = {} /\ Links(cur_msg) = {}
    /\ \E i \in 1..Len(cur_msg.parts) : cur_msg.parts[i].ctype = "application/pdf"
    /\ Has("failed", cur_id)

\* The rows stored for message id: the k-th row belongs to the k-th
\* successful store_invoice call.
IsInsert(e) == e[1] = "insert"

RowsOf(id) ==
    {rows[k] : k \in {n \in 1..Len(rows) : SelectSeq(log, IsInsert)[n][2] = id}}

\* The row scenario A expects for an attachment: the extracted fields,
\* then source=attachment and the filename of the part.
ExpectedAttachmentRow(msg, part) ==
    [email_subject |-> decode_mime_words(subject_of(msg)),
     data |-> json_dumps(extract_invoice_from_pdf(part.payload)
                         \o << <<"source", Str("attachment")>>,
                               <<"filename", part.filename>> >>)]

\* The message has exactly one non-empty PDF attachment, no PDF link,
\* and the extraction of the attachment is not empty.
OneRecognisedAttachment(msg) ==
    /\ Cardinality(Attachments(msg)) = 1
    /\ Links(msg) = {}
    /\ \A i \in Attachments(msg) :
          extract_invoice_from_pdf(msg.parts[i].payload) # EmptyDict

\* Exactly one row, the expected one, and the message is processed.
OneRowAndProcessed(id, msg) ==
    /\ Count("insert", id) = 1
    /\ \A i \in Attachments(msg) :
          RowsOf(id) = {ExpectedAttachmentRow(msg, msg.parts[i])}
    /\ Has("processed", id)
    /\ ~Has("failed", id)

C7_ConnectFailureEndsRun ==
    Has("connect_failed", 0) =>
        /\ pc = "done"
        /\ session = "none"
        /\ log = << <<"connect_failed", 0>> >>
        /\ msg_ids = <<>> /\ messages = <<>>
        /\ rows = <<>> /\ posted = <<>>
        /\ processed = <<>> /\ failed = <<>>

\* The run has returned after a failed connect_mailbox.
C7_Witness == Has("connect_failed", 0) /\ pc = "done" /\ table

(***************************************************************************)
(* C8.  If processed and failed are both empty when the run ends, the      *)
(* Notifier was not called in the run.                                     *)
(***************************************************************************)
C8_NoSummaryNoNotification ==
    (Ended /\ processed = <<>> /\ failed = <<>>) =>
        ~Has("notify", 0) /\ posted = <<>>

\* A run with unseen ids, none of them classified, has returned.
C8_Witness ==
    /\ pc = "done"
    /\ session = "closed"
    /\ msg_ids # <<>>
    /\ processed = <<>> /\ failed = <<>>

(***************************************************************************)
(* C9.  A failed fetch of one id, by a non-OK status or by an error,       *)
(* never aborts the run: every other id of the search is still fetched,    *)
(* and when fetched, extracted and classified.  The code violates this:    *)
(* an exception of imap.fetch leaves fetch_unseen_messages and main().     *)
(***************************************************************************)
C9_FetchFailureNeverAborts ==
    Ended =>
        \A i \in Ids, j \in Ids :
            (i # j /\ FetchFailed(i)) =>
                /\ Has("fetch_OK", j) \/ FetchFailed(j)
                /\ Has("fetch_OK", j) => (Has("extract", j) /\ Classified(j))

(***************************************************************************)
(* C10.  A message whose fetch fails is recovered locally: its extraction  *)
(* is skipped, it is recorded in failed, and markSeen is still attempted   *)
(* for it.  The code violates this: the id is dropped by the fetch loop,   *)
(* nothing is appended to failed and imap.store is not called for it.      *)
(***************************************************************************)
C10_FetchFailureRecorded ==
    Ended =>
        \A i \in Ids :
            FetchFailed(i) =>
                /\ ~Has("extract", i)
                /\ Has("failed", i)
                /\ Has("seen", i)

\* Every call op2 for id2 comes after a call op1 for id1.
Precedes(op1, id1, op2, id2) ==
    \A k \in 1..Len(log) :
        log[k] = <<op2, id2>> => \E i \in 1..(k - 1) : log[i] = <<op1, id1>>

\* The id of the j-th fetched message.
IdOf(j) == messages[j][1]

\* The calls made so far, as a set.
Events == {log[i] : i \in 1..Len(log)}

\* The position of the first call e.
First(e) ==
    CHOOSE i \in 1..Len(log) : log[i] = e /\ \A k \in 1..(i - 1) : log[k] # e

\* Call a was made, and before the first call b.
Earlier(ev, a, b) == a \in ev /\ First(a) < First(b)

\* An exception was caught while the message was walked or stored.
CaughtException(id) == Has("extract_raised", id) \/ Has("insert_raised", id)

(***************************************************************************)
(* C11.  In every run in which the mailbox session was opened,             *)
(* imap.logout has been called when the run ends, on every path.  The      *)
(* code violates this: logout is a plain statement after the loop, so an   *)
(* exception of the search, of a fetch or of imap.store in the finally     *)
(* clause leaves main() without it.                                        *)
(***************************************************************************)
C11_SessionAlwaysClosed ==
    (Ended /\ Opened) => Has("logout", 0)

(***************************************************************************)
(* C12.  For every message the loop of main() handles, markSeen is         *)
(* attempted exactly once, and after the message has been classified,      *)
(* whatever the classification.                                            *)
(***************************************************************************)
C12_MarkSeenOnceAfterClassification ==
    LET ev == Events
    IN  \A j \in 1..Len(messages) :
            LET seen == <<"seen", IdOf(j)>>
                proc == <<"processed", IdOf(j)>>
                fail == <<"failed", IdOf(j)>>
            IN  /\ seen \in ev =>
                      /\ Count("seen", IdOf(j)) = 1
                      /\ Earlier(ev, proc, seen) \/ Earlier(ev, fail, seen)
                /\ (proc \in ev \/ fail \in ev) =>
                      \/ seen \in ev
                      \/ (pc = "mark" /\ j = mi)

\* A message failed by an exception and a processed message have both
\* been marked seen.
C12_Witness ==
    /\ Len(messages) = 2
    /\ Has("extract_raised", IdOf(1)) /\ Has("failed", IdOf(1)) /\ Has("seen", IdOf(1))
    /\ Has("processed", IdOf(2)) /\ Has("seen", IdOf(2))

(***************************************************************************)
(* C13.  An exception raised while locating candidates, extracting or      *)
(* persisting for one message is caught at the message level: its subject  *)
(* is appended to failed and every later message of the run is still       *)
(* processed, classified and marked seen.  The code catches the exception  *)
(* and appends to failed, but the later messages are lost when imap.store  *)
(* raises in the finally clause (C14).                                     *)
(***************************************************************************)
C13_ExceptionCaughtPerMessage ==
    Ended =>
        \A j \in 1..Len(messages) :
            CaughtException(IdOf(j)) =>
                /\ Has("failed", IdOf(j))
                /\ \A k \in (j + 1)..Len(messages) :
                      /\ Has("extract", IdOf(k))
                      /\ Classified(IdOf(k))
                      /\ Has("seen", IdOf(k))

(***************************************************************************)
(* C14.  When the markSeen call of one message fails, the classification   *)
(* recorded for it still reaches the summary notification and the          *)
(* remaining messages are still processed and marked seen.  The code       *)
(* violates this: imap.store raising in the finally clause is caught by    *)
(* nothing and ends the run.                                               *)
(***************************************************************************)
C14_MarkSeenBestEffort ==
    Ended =>
        \A j \in 1..Len(messages) :
            Has("seen_raised", IdOf(j)) =>
                /\ Has("notify", 0)
                /\ \A k \in (j + 1)..Len(messages) :
                      Classified(IdOf(k)) /\ Has("seen", IdOf(k))

\* The index of the first text/html part that does not decode, or one
\* past the last part: the walk reaches the parts before it.
FirstBad(msg) ==
    LET bad == {i \in 1..Len(msg.parts) :
                   msg.parts[i].ctype = "text/html" /\ ~msg.parts[i].charset_ok}
    IN  IF bad = {} THEN Len(msg.parts) + 1
        ELSE CHOOSE i \in bad : \A k \in bad : i <= k

\* The PDF links and the attachments in the parts the walk reaches.
ScannedLinks(msg) == {l \in Links(msg) : l[1] < FirstBad(msg)}

ScannedAttachments(msg) == {i \in Attachments(msg) : i < FirstBad(msg)}

\* The urlopen calls made for message id.
DownloadCount(id) == Count("download_ok", id) + Count("download_ERR", id)

(***************************************************************************)
(* C15.  For a message whose HTML bodies contain N matching PDF URLs the   *)
(* locator attempts exactly N downloads; a failed download yields no       *)
(* candidate and raises nothing, and the remaining matches are still       *)
(* attempted and yield their candidates when they succeed.                 *)
(***************************************************************************)
C15_OneDownloadPerMatch ==
    LET ev == Events
    IN  /\ \A j \in 1..Len(messages) :
              <<"extract", IdOf(j)>> \in ev =>
                  /\ DownloadCount(IdOf(j)) = Cardinality(ScannedLinks(messages[j][2]))
                  /\ <<"extract_raised", IdOf(j)>> \in ev <=>
                         FirstBad(messages[j][2]) <= Len(messages[j][2].parts)
        /\ pc \in {"store", "mark"} =>
              Len(raw) = Cardinality(ScannedAttachments(cur_msg))
                         + Count("download_ok", cur_id)

\* Of the two links of a message the first download failed and the
\* second one gave the only candidate.
C15_Witness ==
    /\ pc = "store"
    /\ Cardinality(Links(cur_msg)) = 2
    /\ \E i \in 1..(Len(log) - 1) :
          log[i] = <<"download_ERR", cur_id>> /\ log[i + 1] = <<"download_ok", cur_id>>
    /\ Len(infos) = 1
    /\ infos[1][Len(infos[1])] = <<"url", Str("https://x.test/b.pdf?token=1")>>

(***************************************************************************)
(* C16.  In every run in which a message was classified, the summary is    *)
(* handed to the Notifier exactly once, after every message was handled    *)
(* and the session was closed.  The code violates this: an exception of    *)
(* imap.store in the finally clause (C14) or of imap.logout ends the run   *)
(* before the notification.                                                *)
(***************************************************************************)
C16_SummaryNotifiedOnce ==
    (Ended /\ (processed # <<>> \/ failed # <<>>)) =>
        /\ Count("notify", 0) = 1
        /\ Precedes("logout", 0, "notify", 0)
        /\ \A j \in 1..Len(messages) : Precedes("seen", IdOf(j), "notify", 0)

\* A call of imap.fetch.
IsFetch(e) == e[1] \in {"fetch_OK", "fetch_NO", "fetch_raise"}

IsProcessed(e) == e[1] = "processed"

IsFailed(e) == e[1] = "failed"

ProcessedIds == [k \in 1..Len(SelectSeq(log, IsProcessed)) |-> SelectSeq(log, IsProcessed)[k][2]]

FailedIds == [k \in 1..Len(SelectSeq(log, IsFailed)) |-> SelectSeq(log, IsFailed)[k][2]]

\* The position of an id in the result of the search.
SearchIndex(id) == CHOOSE i \in 1..Len(msg_ids) : msg_ids[i] = id

\* The decoded subject of the fetched message with this id.
SubjectOfId(id) ==
    LET j == CHOOSE n \in 1..Len(messages) : IdOf(n) = id
    IN  decode_mime_words(subject_of(messages[j][2]))

\* ids is in the order of the search and subjects lists their subjects.
InSearchOrder(ids, subjects) ==
    /\ \A a \in 1..Len(ids), b \in 1..Len(ids) :
          a < b => SearchIndex(ids[a]) < SearchIndex(ids[b])
    /\ subjects = [k \in 1..Len(ids) |-> SubjectOfId(ids[k])]

\* The lines of the summary, written out in the order of the sequences.
ExpectedLines ==
    << "Processed invoices:" >>
    \o [k \in 1..Len(processed) |-> " - " \o processed[k]]
    \o (IF failed = <<>> THEN <<>>
        ELSE << "Failed or unrecognized emails:" >>
             \o [k \in 1..Len(failed) |-> " - " \o failed[k]])

(***************************************************************************)
(* C18.  processed and failed each list the subjects in the order in       *)
(* which the search returned their messages, and the rendered summary      *)
(* keeps that order.                                                       *)
(***************************************************************************)
C18_SummaryInSearchOrder ==
    /\ InSearchOrder(ProcessedIds, processed)
    /\ InSearchOrder(FailedIds, failed)
    /\ \A n \in 1..Len(posted) :
          posted[n].text.content = join_lines(ExpectedLines)

\* A summary with two different processed subjects has been posted.
C18_Witness ==
    /\ pc = "done"
    /\ Len(processed) = 2
    /\ processed[1] # processed[2]
    /\ posted # <<>>

(***************************************************************************)
(* C19.  Every message that reaches the loop of main() is classified       *)
(* exactly once: after its iteration its subject was appended once to      *)
(* exactly one of processed and failed, on every path; at the end of the   *)
(* loop len(processed) + len(failed) is the number of fetched messages.    *)
(***************************************************************************)
C19_ClassifiedExactlyOnce ==
    LET ev == Events
    IN  /\ \A j \in 1..Len(messages) :
              LET classified == <<"processed", IdOf(j)>> \in ev \/ <<"failed", IdOf(j)>> \in ev
              IN  /\ classified =>
                        Count("processed", IdOf(j)) + Count("failed", IdOf(j)) = 1
                  /\ (<<"seen", IdOf(j)>> \in ev \/ (pc = "mark" /\ j = mi)) => classified
        /\ Len(processed) = Cardinality({i \in 1..Len(log) : log[i][1] = "processed"})
        /\ Len(failed) = Cardinality({i \in 1..Len(log) : log[i][1] = "failed"})
        /\ pc \in {"logout", "notify", "done"} =>
              Len(processed) + Len(failed) = Len(messages)

\* The loop has ended after a message whose store_invoice raised and a
\* message whose records were stored.
C19_Witness ==
    /\ pc = "logout"
    /\ Len(messages) = 2
    /\ Has("insert_raised", IdOf(1)) /\ Has("failed", IdOf(1))
    /\ Has("processed", IdOf(2))

\* A urlopen call for message id.
IsDownload(e, id) == e \in {<<"download_ok", id>>, <<"download_ERR", id>>}

(***************************************************************************)
(* C20.  Candidate discovery is all-or-nothing per message: when           *)
(* extract_invoice_info raises while walking a later part, no record is    *)
(* persisted for the message although earlier parts produced candidates;   *)
(* persistence starts only after the whole message was walked.             *)
(***************************************************************************)
C20_NoRowAfterFailedWalk ==
    LET ev == Events
    IN  \A j \in 1..Len(messages) :
            LET insert == <<"insert", IdOf(j)>>
            IN  /\ <<"extract_raised", IdOf(j)>> \in ev =>
                      /\ insert \notin ev
                      /\ RowsOf(IdOf(j)) = {}
                      /\ <<"insert_raised", IdOf(j)>> \notin ev
                      /\ <<"processed", IdOf(j)>> \notin ev
                /\ insert \in ev =>
                      /\ Earlier(ev, <<"extract", IdOf(j)>>, insert)
                      /\ \A k \in First(insert)..Len(log) : ~IsDownload(log[k], IdOf(j))

\* The walk raised at a later part after an attachment had produced a
\* candidate, and the message has been classified.
C20_Witness ==
    /\ pc = "mark"
    /\ Has("extract_raised", cur_id)
    /\ raw # <<>>
    /\ Has("failed", cur_id)

====
